---------------------------- MODULE Spec2Model ----------------------------
(***************************************************************************)
(* A model of the authentication core and the pagination stream of the     *)
(* ArcGIS sharing client (src/src/lib.rs, src/src/auth.rs,                  *)
(* src/src/api/search.rs, src/src/api/community/groups/search.rs).          *)
(*                                                                         *)
(* Eight specifications share the module:                                   *)
(*   Spec        concurrent ArcGISSharingClient::execute calls on one       *)
(*               client handle, with the token cache, the refresh mutex,    *)
(*               the token provider and the clock;                          *)
(*   SpecLate    the same on a credentialed handle, with room for a second  *)
(*               401 response and the clock standing still;                 *)
(*   SpecLive    execute with the cache's RwLock made visible, under        *)
(*               fairness;                                                  *)
(*   SpecPure    the pure functions CachedToken::valid_token_with_buffer    *)
(*               and duration_until / LegacyToken::fetch_token's TTL, and   *)
(*               the SearchBuilder, applied to inputs drawn from bounded    *)
(*               sets;                                                      *)
(*   SpecStream  SearchStream::poll_next and GroupSearchStream::poll_next   *)
(*               driven by a consumer, a server and a timer;                *)
(*   SpecStreamLive  the same for streams with a finite max_pages, under    *)
(*               fairness;                                                  *)
(*   SpecHandles client handles made by build() or by clone(), each with    *)
(*               one caller of execute;                                     *)
(*   SpecRwLock  threads reading and storing one CachedToken through its    *)
(*               RwLock.                                                    *)
(* Times of Spec and of the cache functions are in seconds; duration_until  *)
(* works in milliseconds as the code does.                                  *)
(***************************************************************************)
EXTENDS Integers, Sequences, FiniteSets, TLC

VARIABLES
    \* ---- Spec: one client handle and its callers
    auth_state,   \* AuthState: [kind, expiration], kind "None" or "LegacyToken"
    cache,        \* CachedToken: NoToken or [secret, expiration]
    gate,         \* refresh_mutex: 0 when free, else the caller holding it
    now,          \* the clock (Utc::now / SystemTime::now), seconds
    pc,           \* each caller's position in execute()
    req,          \* each caller's request: the authority of its URL
    tok,          \* each caller's local `token` (0: none yet)
    out,          \* each caller's request as dispatched: NotSent or [sent, header, epoch], where
                  \* epoch is a history kept under SpecLate: the number of secrets the provider
                  \* had issued by then
    issued,       \* the provider's record: issued[s] is the expiry (seconds) it reported for secret s
    n401,         \* number of 401 responses received by this handle
    waited,       \* history: the secret another caller's refresh installed while this caller waited on the gate
    invalidated,  \* history: a 401 cleared the cache after that refresh and before this caller's re-check
    \* ---- SpecPure
    fn_in,        \* the input of the function under study
    fn_out,       \* its result, with done = FALSE before it is applied
    \* ---- SpecStream: one stream, its server, its timer, its consumer
    endpoint,     \* which stream send() built: "search" or "community/groups"
    params,       \* the stream's `params` as the builder's to_params made them: [start, num]
    stream,       \* the stream's fields
    reply,        \* the page request in flight: its response once the server answered
    elapsed,      \* whether the armed delay timer has run out
    requests,     \* history: the `start` of every page request issued
    sent,         \* history: the parameters of every page request issued
    replies,      \* history: every response the stream has taken, [ok, n, next_start]
    served,       \* history: items the server has put into responses (numbered 1..served)
    yielded,      \* history: the items poll_next has yielded, in order
    last_poll,    \* the result of the latest poll_next: "none", "item", "done", "pending"
    \* ---- SpecHandles: client handles, built or cloned, one caller each
    h_pc,             \* each handle's caller: "absent" before the handle exists, then its position in execute()
    h_token,          \* each handle's CachedToken
    h_refresh_mutex,  \* each handle's refresh_mutex: the mutex its Arc points to (0: none)
    mutexes,          \* each mutex: 0 when free, else the handle whose caller holds it
    h_fetched,        \* history: h_fetched[s] is the handle whose refresh fetched secret s
    h_inherited,      \* history: the token a handle's cache held when the handle was made
    \* ---- SpecRwLock: threads sharing one CachedToken
    rw,           \* the RwLock: [readers, writers], the threads holding it
    cell,         \* the value behind the lock, one field at a time: [secret, expiration]
    t_pc,         \* each thread's position in valid_token_with_buffer, set or clear
    t_val,        \* each thread's local value: what it has read, or what it writes
    stored        \* history: the values whose store was completed, with the initial None

authVars == <<auth_state, cache, gate, now, pc, req, tok, out, issued, n401,
              waited, invalidated>>
pureVars == <<fn_in, fn_out>>
sendVars == <<endpoint, params>>
streamVars == <<sendVars, stream, reply, elapsed, requests, sent, replies, served, yielded,
               last_poll>>
handleVars == <<h_pc, h_token, h_refresh_mutex, mutexes, h_fetched, h_inherited>>
lockVars == <<rw, cell, t_pc, t_val, stored>>
vars == <<authVars, pureVars, streamVars, handleVars, lockVars>>

----------------------------------------------------------------------------
(* Bounds of the model *)

NumCallers == 2      \* concurrent callers of execute() on the handle
MaxFetches == 2      \* successful provider fetches
Max401 == 1          \* 401 responses
MaxNow == 20         \* the clock stops here
TickSecs == 20       \* one step of the clock

Callers == 1..NumCallers

----------------------------------------------------------------------------
(* Program constants *)

DefaultBufferSecs == 30          \* valid_token's buffer
DefaultTtlSecs == 60             \* fetch_token's fallback TTL
MinTtlSecs == 60                 \* duration_until's lower warning threshold
MaxTtlSecs == 1296000            \* 15 * 24 * 3600

----------------------------------------------------------------------------
(* CachedToken (src/src/auth.rs) *)

NoExpiration == -1               \* Option<DateTime<Utc>>::None
NoToken == [secret |-> 0, expiration |-> NoExpiration]   \* Option<CachedTokenInner>::None
NoSecret == 0

\* CachedToken::set
CacheSet(secret, expiration) == [secret |-> secret, expiration |-> expiration]

\* CachedToken::clear
CacheClear == NoToken

\* a variant of valid_token_with_buffer that accepts a token at the boundary
ValidTokenInclusive(c, t, buffer) ==
    IF c # NoToken
    THEN IF c.expiration # NoExpiration
         THEN IF c.expiration - t >= buffer THEN c.secret ELSE NoSecret
         ELSE c.secret
    ELSE NoSecret

\* CachedToken::valid_token_with_buffer: the secret, or NoSecret for None
valid_token_with_buffer(c, t, buffer) ==
    IF c # NoToken
    THEN IF c.expiration # NoExpiration
         THEN IF c.expiration - t > buffer THEN c.secret ELSE NoSecret
         ELSE c.secret
    ELSE NoSecret

\* CachedToken::valid_token
valid_token(c, t) == valid_token_with_buffer(c, t, DefaultBufferSecs)

----------------------------------------------------------------------------
(* duration_until and fetch_token's TTL (src/src/auth.rs); milliseconds.    *)
(* unix_ts is taken non-negative here, where `unix_ts as u64` is the        *)
(* identity.                                                                *)

NoDuration == -1                 \* Option<Duration>::None

\* duration_until: the warnings change no value
duration_until(unix_ts, now_ms) ==
    LET target == unix_ts
    IN  IF target < now_ms
        THEN NoDuration                      \* duration_since(..).ok()? on an Err
        ELSE target - now_ms                 \* Some(duration), whatever `secs` is

\* duration_until's tracing::warn! branches: whether a diagnostic is emitted
TtlDiagnostic(unix_ts, now_ms) ==
    LET d == duration_until(unix_ts, now_ms)
        secs == d \div 1000                   \* Duration::as_secs
    IN  d # NoDuration /\ (secs < MinTtlSecs \/ secs > MaxTtlSecs)

\* fetch_token: duration_until(response.expires).unwrap_or_else(|| 60 s)
FetchTtl(unix_ts, now_ms) ==
    LET d == duration_until(unix_ts, now_ms)
    IN  IF d = NoDuration THEN DefaultTtlSecs * 1000 ELSE d

----------------------------------------------------------------------------
(* SearchStream's fields and construction (src/src/api/search.rs) *)

MaxCursor == 5       \* the server reports next_start in {-1} \cup 0..MaxCursor
MaxItems == 2        \* a page holds 0..MaxItems items
MaxPageCap == 2      \* max_pages is drawn from 0..MaxPageCap and usize::MAX

UsizeMax == 2147483647     \* stands for usize::MAX: no run fetches that many pages
NoMorePages == -1          \* the next_start that ends the listing

NoReply == [ready |-> FALSE]
NoStart == 0               \* the builder's `start: None`; positions are 1-based
Endpoints == {"search", "community/groups"}
StartChoices == {NoStart, 3}     \* no set_start, or set_start(3)
NoNum == 0                 \* the builder's `num: None`
NumChoices == {NoNum, 2}         \* no set_num, or set_num(2)
NextStarts == {NoMorePages} \cup (0..MaxCursor)
PageDelays == {0, 100}     \* page_fetch_delay, milliseconds

\* SearchBuilder::to_params and GroupSearchBuilder::to_params: `start: self.start`,
\* `num: self.num`; num stands for every field but start
to_params(start, num) == [start |-> start, num |-> num]

\* a variant of NewStream whose first position is 0
NewStreamFromZero(max_pages, page_fetch_delay) ==
    [buffer |-> << >>,
     current_start |-> 0,
     next_start |-> 0,
     pages_fetched |-> 0,
     max_pages |-> max_pages,
     finished |-> FALSE,
     fetch_future |-> FALSE,
     page_fetch_delay |-> page_fetch_delay,
     delay_future |-> FALSE]

\* SearchStream::new and GroupSearchStream::new
NewStream(max_pages, page_fetch_delay) ==
    [buffer |-> << >>,
     current_start |-> 1,
     next_start |-> 1,
     pages_fetched |-> 0,
     max_pages |-> max_pages,
     finished |-> FALSE,
     fetch_future |-> FALSE,
     page_fetch_delay |-> page_fetch_delay,
     delay_future |-> FALSE]

\* no stream under study
StreamIdle ==
    /\ endpoint = "search"
    /\ params = to_params(NoStart, NoNum)
    /\ stream = NewStream(0, 0)
    /\ reply = NoReply
    /\ elapsed = FALSE
    /\ requests = << >>
    /\ sent = << >>
    /\ replies = << >>
    /\ served = 0
    /\ yielded = << >>
    /\ last_poll = "none"

----------------------------------------------------------------------------
(* Client handles and the threads of one CachedToken: the sets they range   *)
(* over and their states at rest                                            *)

NumThreads == 2      \* threads sharing one CachedToken

Handles == {1, 2}
Threads == 1..NumThreads

\* no handles under study
HandlesIdle ==
    /\ h_pc = [h \in Handles |-> "absent"]
    /\ h_token = [h \in Handles |-> NoToken]
    /\ h_refresh_mutex = [h \in Handles |-> 0]
    /\ mutexes = [x \in Handles |-> 0]
    /\ h_fetched = << >>
    /\ h_inherited = [h \in Handles |-> NoToken]

\* CachedToken::default, no thread at work
LockIdle ==
    /\ rw = [readers |-> {}, writers |-> {}]
    /\ cell = NoToken
    /\ t_pc = [t \in Threads |-> "idle"]
    /\ t_val = [t \in Threads |-> NoToken]
    /\ stored = {NoToken}

----------------------------------------------------------------------------
(* ArcGISSharingClient::execute (src/src/lib.rs) *)

\* Url::authority of the portal and of the URLs a request may target
PortalAuthority == [host |-> "portal", port |-> 443]
Authorities == {PortalAuthority,
                [host |-> "portal", port |-> 8443],
                [host |-> "cdn", port |-> 443]}

\* LegacyToken.expiration: the lifetime the handle asks the provider for, which
\* the provider grants; seconds
TtlOffers == {40, 100}
AuthStates == {[kind |-> "None", expiration |-> 0]}
              \cup {[kind |-> "LegacyToken", expiration |-> e] : e \in TtlOffers}

NotSent == [sent |-> FALSE, header |-> NoSecret, epoch |-> 0]

\* refresh_token_legacy_token: the expiration it hands to CachedToken::set
RefreshExpiration(t, ttl_ms) == NoExpiration

\* a variant of SameAuthority that compares the host names only
SameHost(a, b) == a.host = b.host

\* execute's test before inserting X-Esri-Authorization
SameAuthority(a, b) == a = b

\* ArcGISSharingClientBuilder::build and the first moment of the handle's life
AuthIdle ==
    /\ cache = NoToken
    /\ gate = 0
    /\ now = 0
    /\ pc = [i \in Callers |-> "idle"]
    /\ req = [i \in Callers |-> PortalAuthority]
    /\ tok = [i \in Callers |-> NoSecret]
    /\ out = [i \in Callers |-> NotSent]
    /\ issued = << >>
    /\ n401 = 0
    /\ waited = [i \in Callers |-> NoSecret]
    /\ invalidated = [i \in Callers |-> FALSE]

\* no function under study
PureIdle ==
    /\ fn_in = [fn |-> "none"]
    /\ fn_out = [done |-> FALSE]

Init ==
    /\ auth_state \in AuthStates
    /\ AuthIdle
    /\ PureIdle
    /\ StreamIdle
    /\ HandlesIdle
    /\ LockIdle

\* a variant of FastPath that looks for a token whatever the auth state is
FastPathCredentialed(i, a) ==
    /\ pc[i] = "idle"
    /\ req' = [req EXCEPT ![i] = a]
    /\ LET t == valid_token(cache, now)
       IN  /\ tok' = [tok EXCEPT ![i] = t]
           /\ pc' = [pc EXCEPT ![i] = IF t # NoSecret THEN "attach" ELSE "lock"]
    /\ UNCHANGED <<auth_state, cache, gate, now, out, issued, n401, waited,
                   invalidated, pureVars, streamVars, handleVars, lockVars>>

\* a variant of FastPath that sends every credentialed caller through the
\* refresh mutex, where the re-check reads the cache
FastPathThroughGate(i, a) ==
    /\ pc[i] = "idle"
    /\ req' = [req EXCEPT ![i] = a]
    /\ IF auth_state.kind = "None"
       THEN /\ tok' = [tok EXCEPT ![i] = NoSecret]
            /\ pc' = [pc EXCEPT ![i] = "attach"]
       ELSE /\ tok' = [tok EXCEPT ![i] = NoSecret]
            /\ pc' = [pc EXCEPT ![i] = "lock"]
    /\ UNCHANGED <<auth_state, cache, gate, now, out, issued, n401, waited,
                   invalidated, pureVars, streamVars, handleVars, lockVars>>

\* a variant of FastPath that looks at the request's authority first and asks
\* for no token when it is not the portal's
FastPathHostFirst(i, a) ==
    /\ pc[i] = "idle"
    /\ req' = [req EXCEPT ![i] = a]
    /\ IF auth_state.kind = "None" \/ ~ SameAuthority(a, PortalAuthority)
       THEN /\ tok' = [tok EXCEPT ![i] = NoSecret]
            /\ pc' = [pc EXCEPT ![i] = "attach"]
       ELSE LET t == valid_token(cache, now)
            IN  /\ tok' = [tok EXCEPT ![i] = t]
                /\ pc' = [pc EXCEPT ![i] = IF t # NoSecret THEN "attach" ELSE "lock"]
    /\ UNCHANGED <<auth_state, cache, gate, now, out, issued, n401, waited,
                   invalidated, pureVars, streamVars, handleVars, lockVars>>

\* execute is entered with request `a`; the fast path reads the cache
FastPath(i, a) ==
    /\ pc[i] = "idle"
    /\ req' = [req EXCEPT ![i] = a]
    /\ IF auth_state.kind = "None"
       THEN /\ tok' = [tok EXCEPT ![i] = NoSecret]
            /\ pc' = [pc EXCEPT ![i] = "attach"]
       ELSE LET t == valid_token(cache, now)
            IN  /\ tok' = [tok EXCEPT ![i] = t]
                /\ pc' = [pc EXCEPT ![i] = IF t # NoSecret THEN "attach" ELSE "lock"]
    /\ UNCHANGED <<auth_state, cache, gate, now, out, issued, n401, waited,
                   invalidated, pureVars, streamVars, handleVars, lockVars>>

\* a variant of Acquire that does not wait for the mutex to be free
AcquireWithoutWaiting(i) ==
    /\ pc[i] = "lock"
    /\ gate' = i
    /\ pc' = [pc EXCEPT ![i] = "recheck"]
    /\ UNCHANGED <<auth_state, cache, now, req, tok, out, issued, n401,
                   waited, invalidated, pureVars, streamVars, handleVars, lockVars>>

\* refresh_mutex.lock().await completes
Acquire(i) ==
    /\ pc[i] = "lock"
    /\ gate = 0
    /\ gate' = i
    /\ pc' = [pc EXCEPT ![i] = "recheck"]
    /\ UNCHANGED <<auth_state, cache, now, req, tok, out, issued, n401,
                   waited, invalidated, pureVars, streamVars, handleVars, lockVars>>

\* a variant of Recheck that refreshes without reading the cache again
RecheckAlwaysFetch(i) ==
    /\ pc[i] = "recheck"
    /\ pc' = [pc EXCEPT ![i] = "fetching"]
    /\ UNCHANGED <<auth_state, cache, gate, now, req, tok, out, issued, n401,
                   waited, invalidated, pureVars, streamVars, handleVars, lockVars>>

\* the double-check under the mutex
Recheck(i) ==
    /\ pc[i] = "recheck"
    /\ LET t == valid_token(cache, now)
       IN  /\ tok' = [tok EXCEPT ![i] = t]
           /\ pc' = [pc EXCEPT ![i] = IF t # NoSecret THEN "release" ELSE "fetching"]
    /\ UNCHANGED <<auth_state, cache, gate, now, req, out, issued, n401,
                   waited, invalidated, pureVars, streamVars, handleVars, lockVars>>

\* a variant of FetchOk that returns the fetched token without storing it
FetchOkNoStore(i) ==
    /\ pc[i] = "fetching"
    /\ Len(issued) < MaxFetches
    /\ LET s == Len(issued) + 1
           expires == now + auth_state.expiration
       IN  /\ issued' = Append(issued, expires)
           /\ tok' = [tok EXCEPT ![i] = s]
           /\ waited' = [j \in Callers |-> IF pc[j] = "lock" THEN s ELSE waited[j]]
           /\ invalidated' = [j \in Callers |->
                                 IF pc[j] = "lock" THEN FALSE ELSE invalidated[j]]
    /\ pc' = [pc EXCEPT ![i] = "release"]
    /\ UNCHANGED <<auth_state, cache, gate, now, req, out, n401, pureVars, streamVars,
                   handleVars, lockVars>>

\* fetch_token returns Ok((token, ttl)); refresh_token_legacy_token stores the token
FetchOk(i) ==
    /\ pc[i] = "fetching"
    /\ Len(issued) < MaxFetches
    /\ LET s == Len(issued) + 1
           expires == now + auth_state.expiration
       IN  /\ issued' = Append(issued, expires)
           /\ cache' = CacheSet(s, RefreshExpiration(now, FetchTtl(expires * 1000, now * 1000)))
           /\ tok' = [tok EXCEPT ![i] = s]
           /\ waited' = [j \in Callers |-> IF pc[j] = "lock" THEN s ELSE waited[j]]
           /\ invalidated' = [j \in Callers |->
                                 IF pc[j] = "lock" THEN FALSE ELSE invalidated[j]]
    /\ pc' = [pc EXCEPT ![i] = "release"]
    /\ UNCHANGED <<auth_state, gate, now, req, out, n401, pureVars, streamVars,
                   handleVars, lockVars>>

\* a variant of FetchFail that swallows the error and goes on without a token
FetchFailSwallowed(i) ==
    /\ pc[i] = "fetching"
    /\ pc' = [pc EXCEPT ![i] = "release"]
    /\ UNCHANGED <<auth_state, cache, gate, now, req, tok, out, issued, n401,
                   waited, invalidated, pureVars, streamVars, handleVars, lockVars>>

\* a variant of FetchFail that asks the provider again after an error
FetchFailRetry(i) ==
    /\ pc[i] = "fetching"
    /\ pc' = [pc EXCEPT ![i] = "recheck"]
    /\ UNCHANGED <<auth_state, cache, gate, now, req, tok, out, issued, n401,
                   waited, invalidated, pureVars, streamVars, handleVars, lockVars>>

\* fetch_token returns Err: `?` leaves refresh_token_legacy_token and execute,
\* dropping _guard on the way out
FetchFail(i) ==
    /\ pc[i] = "fetching"
    /\ pc' = [pc EXCEPT ![i] = "failed"]
    /\ UNCHANGED <<auth_state, cache, gate, now, req, tok, out, issued, n401,
                   waited, invalidated, pureVars, streamVars, handleVars, lockVars>>

\* a variant of Release that unlocks by hand and forgets the error path
ReleaseOnSuccessOnly(i) ==
    /\ pc[i] \in {"release", "failed"}
    /\ gate' = IF pc[i] = "failed" THEN gate ELSE 0
    /\ pc' = [pc EXCEPT ![i] = IF pc[i] = "failed" THEN "idle" ELSE "attach"]
    /\ req' = [req EXCEPT ![i] = IF pc[i] = "failed" THEN PortalAuthority ELSE req[i]]
    /\ waited' = [waited EXCEPT ![i] = IF pc[i] = "failed" THEN NoSecret ELSE waited[i]]
    /\ invalidated' = [invalidated EXCEPT ![i] =
                         IF pc[i] = "failed" THEN FALSE ELSE invalidated[i]]
    /\ UNCHANGED <<auth_state, cache, now, tok, out, issued, n401, pureVars, streamVars,
                   handleVars, lockVars>>

\* _guard is dropped when the else-block is left, by its value or by `?`;
\* after an error execute has returned Err and its locals are gone
Release(i) ==
    /\ pc[i] \in {"release", "failed"}
    /\ gate' = 0
    /\ pc' = [pc EXCEPT ![i] = IF pc[i] = "failed" THEN "idle" ELSE "attach"]
    /\ req' = [req EXCEPT ![i] = IF pc[i] = "failed" THEN PortalAuthority ELSE req[i]]
    /\ waited' = [waited EXCEPT ![i] = IF pc[i] = "failed" THEN NoSecret ELSE waited[i]]
    /\ invalidated' = [invalidated EXCEPT ![i] =
                         IF pc[i] = "failed" THEN FALSE ELSE invalidated[i]]
    /\ UNCHANGED <<auth_state, cache, now, tok, out, issued, n401, pureVars, streamVars,
                   handleVars, lockVars>>

\* the header is inserted for the portal's authority only; the request is sent.
\* Secrets are taken to be valid header values (HeaderValue::from_str succeeds).
\* `e` is kept with the request as its epoch, a history.
DispatchAt(i, e) ==
    /\ pc[i] = "attach"
    /\ out' = [out EXCEPT ![i] =
                  [sent |-> TRUE,
                   header |-> IF tok[i] # NoSecret /\ SameAuthority(req[i], PortalAuthority)
                              THEN tok[i] ELSE NoSecret,
                   epoch |-> e]]
    /\ pc' = [pc EXCEPT ![i] = "sent"]
    /\ UNCHANGED <<auth_state, cache, gate, now, req, tok, issued, n401,
                   waited, invalidated, pureVars, streamVars, handleVars, lockVars>>

\* the same, keeping no history
Dispatch(i) == DispatchAt(i, 0)

\* a variant of AfterResponse that keeps a token its expiration still calls valid
AfterResponseIfExpired(c, status) ==
    IF /\ status = "unauthorized"
       /\ auth_state.kind = "LegacyToken"
       /\ valid_token(c, now) = NoSecret
    THEN CacheClear ELSE c

\* the cache after a response of `status`
AfterResponse(c, status) ==
    IF status = "unauthorized" /\ auth_state.kind = "LegacyToken" THEN CacheClear ELSE c

\* a variant of Respond that, on a 401, goes back for a fresh token and sends
\* the request again
RespondRetryOn401(i, status) ==
    /\ pc[i] = "sent"
    /\ cache' = AfterResponse(cache, status)
    /\ n401' = IF status = "unauthorized" THEN n401 + 1 ELSE n401
    /\ pc' = [pc EXCEPT ![i] = IF status = "unauthorized" THEN "lock" ELSE "idle"]
    /\ req' = [req EXCEPT ![i] = IF status = "unauthorized" THEN @ ELSE PortalAuthority]
    /\ tok' = [tok EXCEPT ![i] = NoSecret]
    /\ out' = [out EXCEPT ![i] = NotSent]
    /\ waited' = [waited EXCEPT ![i] = NoSecret]
    /\ invalidated' = [j \in Callers |->
                         IF j = i THEN FALSE
                         ELSE IF /\ cache' # cache
                                 /\ pc[j] \in {"lock", "recheck"}
                                 /\ waited[j] # NoSecret
                              THEN TRUE ELSE invalidated[j]]
    /\ UNCHANGED <<auth_state, gate, now, issued, pureVars, streamVars, handleVars, lockVars>>

\* a variant of Respond whose 401 clears the cache only when the cache still
\* holds the secret the request carried
RespondClearIfCurrent(i, status) ==
    /\ pc[i] = "sent"
    /\ cache' = IF cache.secret = out[i].header
                THEN AfterResponse(cache, status) ELSE cache
    /\ n401' = IF status = "unauthorized" THEN n401 + 1 ELSE n401
    /\ pc' = [pc EXCEPT ![i] = "idle"]
    /\ req' = [req EXCEPT ![i] = PortalAuthority]
    /\ tok' = [tok EXCEPT ![i] = NoSecret]
    /\ out' = [out EXCEPT ![i] = NotSent]
    /\ waited' = [waited EXCEPT ![i] = NoSecret]
    /\ invalidated' = [j \in Callers |->
                         IF j = i THEN FALSE
                         ELSE IF /\ cache' # cache
                                 /\ pc[j] \in {"lock", "recheck"}
                                 /\ waited[j] # NoSecret
                              THEN TRUE ELSE invalidated[j]]
    /\ UNCHANGED <<auth_state, gate, now, issued, pureVars, streamVars, handleVars, lockVars>>

\* client.execute(request).await returns a response or a transport error; a 401
\* clears the cache; execute returns and its locals are gone
Respond(i, status) ==
    /\ pc[i] = "sent"
    /\ cache' = AfterResponse(cache, status)
    /\ n401' = IF status = "unauthorized" THEN n401 + 1 ELSE n401
    /\ pc' = [pc EXCEPT ![i] = "idle"]
    /\ req' = [req EXCEPT ![i] = PortalAuthority]
    /\ tok' = [tok EXCEPT ![i] = NoSecret]
    /\ out' = [out EXCEPT ![i] = NotSent]
    /\ waited' = [waited EXCEPT ![i] = NoSecret]
    /\ invalidated' = [j \in Callers |->
                         IF j = i THEN FALSE
                         ELSE IF /\ cache' # cache
                                 /\ pc[j] \in {"lock", "recheck"}
                                 /\ waited[j] # NoSecret
                              THEN TRUE ELSE invalidated[j]]
    /\ UNCHANGED <<auth_state, gate, now, issued, pureVars, streamVars, handleVars, lockVars>>

\* time passes
Tick ==
    /\ now + TickSecs <= MaxNow
    /\ now' = now + TickSecs
    /\ UNCHANGED <<auth_state, cache, gate, pc, req, tok, out, issued, n401,
                   waited, invalidated, pureVars, streamVars, handleVars, lockVars>>

Next ==
    \/ \E i \in Callers, a \in Authorities : FastPath(i, a)
    \/ \E i \in Callers : Acquire(i)
    \/ \E i \in Callers : Recheck(i)
    \/ \E i \in Callers : FetchOk(i)
    \/ \E i \in Callers : FetchFail(i)
    \/ \E i \in Callers : Release(i)
    \/ \E i \in Callers : Dispatch(i)
    \/ \E i \in Callers, status \in {"ok", "unauthorized", "transport_error"} :
           /\ status = "unauthorized" => n401 < Max401
           /\ Respond(i, status)
    \/ Tick

Spec == Init /\ [][Next]_vars

----------------------------------------------------------------------------
(* A credentialed handle with room for a second 401 response: SpecLate.     *)
(* The clock stands still.                                                  *)

MaxLate401 == 2      \* 401 responses

InitLate ==
    /\ auth_state \in {a \in AuthStates : a.kind = "LegacyToken"}
    /\ AuthIdle
    /\ PureIdle
    /\ StreamIdle
    /\ HandlesIdle
    /\ LockIdle

NextLate ==
    \/ \E i \in Callers, a \in Authorities : FastPath(i, a)
    \/ \E i \in Callers : Acquire(i)
    \/ \E i \in Callers : Recheck(i)
    \/ \E i \in Callers : FetchOk(i)
    \/ \E i \in Callers : FetchFail(i)
    \/ \E i \in Callers : Release(i)
    \/ \E i \in Callers : DispatchAt(i, Len(issued))
    \/ \E i \in Callers, status \in {"ok", "unauthorized", "transport_error"} :
           /\ status = "unauthorized" => n401 < MaxLate401
           /\ Respond(i, status)

SpecLate == InitLate /\ [][NextLate]_vars

----------------------------------------------------------------------------
(* The pure functions on bounded inputs: SpecPure *)

MaxPureNow == 3           \* clock readings 0..MaxPureNow, seconds
MaxPureExpiration == 45   \* expirations 0..MaxPureExpiration, seconds

PureCaches ==
    {NoToken} \cup {CacheSet(s, e) : s \in 1..MaxFetches,
                                     e \in {NoExpiration} \cup (0..MaxPureExpiration)}
PureBuffers == {0, 30}

CacheInputs ==
    {[fn |-> "valid_token_with_buffer", cache |-> c, now |-> t, buffer |-> b] :
        c \in PureCaches, t \in 0..MaxPureNow, b \in PureBuffers}

\* response.expires and the clock, milliseconds since the epoch
PureTimestamps == {0, 400, 30000, 59999, 60000, 61000, 3600000,
                   1296000000, 1296001000, 1382400000}
PureNowsMs == {0, 500, 1000}

TtlInputs ==
    {[fn |-> "fetch_token_ttl", unix_ts |-> ts, now |-> t] :
        ts \in PureTimestamps, t \in PureNowsMs}

\* SearchBuilder (src/src/api/search.rs): the fields that shape the stream
DefaultPageFetchDelayMs == 100       \* Duration::from_millis(100)
NotCalled == -1                      \* the setter was not called on the builder

\* SearchBuilder::new
SearchBuilderNew ==
    [max_pages |-> UsizeMax, page_fetch_delay |-> DefaultPageFetchDelayMs,
     start |-> NoStart, num |-> NoNum]

\* SearchBuilder::set_max_pages
set_max_pages(b, max_pages) == [b EXCEPT !.max_pages = max_pages]

\* SearchBuilder::set_page_fetch_delay; milliseconds
set_page_fetch_delay(b, delay) == [b EXCEPT !.page_fetch_delay = delay]

\* SearchBuilder::send: the stream and its params
send(b) == [stream |-> NewStream(b.max_pages, b.page_fetch_delay),
            params |-> to_params(b.start, b.num)]

\* client.search(), then the setters that were called, then send()
BuildAndSend(max_pages, delay) ==
    LET b0 == SearchBuilderNew
        b1 == IF max_pages = NotCalled THEN b0 ELSE set_max_pages(b0, max_pages)
        b2 == IF delay = NotCalled THEN b1 ELSE set_page_fetch_delay(b1, delay)
    IN  send(b2)

SendInputs ==
    {[fn |-> "send", max_pages |-> mp, delay |-> d] :
        mp \in {NotCalled, 0, 3}, d \in {NotCalled, 0, 500, 1000}}

InitPure ==
    /\ auth_state = [kind |-> "None", expiration |-> 0]
    /\ AuthIdle
    /\ fn_in \in CacheInputs \cup TtlInputs \cup SendInputs
    /\ fn_out = [done |-> FALSE]
    /\ StreamIdle
    /\ HandlesIdle
    /\ LockIdle

\* token.valid_token_with_buffer(buffer) and token.valid_token() on the same cache
ApplyValidToken ==
    /\ fn_in.fn = "valid_token_with_buffer"
    /\ ~fn_out.done
    /\ fn_out' = [done |-> TRUE,
                  value |-> valid_token_with_buffer(fn_in.cache, fn_in.now, fn_in.buffer),
                  dflt |-> valid_token(fn_in.cache, fn_in.now)]
    /\ UNCHANGED <<authVars, fn_in, streamVars, handleVars, lockVars>>

\* the TTL fetch_token returns for response.expires
ApplyFetchTtl ==
    /\ fn_in.fn = "fetch_token_ttl"
    /\ ~fn_out.done
    /\ fn_out' = [done |-> TRUE,
                  value |-> FetchTtl(fn_in.unix_ts, fn_in.now),
                  warned |-> TtlDiagnostic(fn_in.unix_ts, fn_in.now)]
    /\ UNCHANGED <<authVars, fn_in, streamVars, handleVars, lockVars>>

\* the stream a builder hands out
ApplySend ==
    /\ fn_in.fn = "send"
    /\ ~fn_out.done
    /\ fn_out' = [done |-> TRUE, value |-> BuildAndSend(fn_in.max_pages, fn_in.delay)]
    /\ UNCHANGED <<authVars, fn_in, streamVars, handleVars, lockVars>>

NextPure == ApplyValidToken \/ ApplyFetchTtl \/ ApplySend

SpecPure == InitPure /\ [][NextPure]_vars

\* C5: valid_token_with_buffer(B) returns the cached secret exactly when a
\* token is cached and its expiration is absent or now + B < expiration;
\* valid_token is the same with B = 30, so a token expiring in 20 s reads as
\* invalid and one expiring in 40 s as valid.
C5_BufferSemantics ==
    (fn_in.fn = "valid_token_with_buffer" /\ fn_out.done) =>
        LET c == fn_in.cache
            t == fn_in.now
            Fresh(b) == c # NoToken /\
                        (c.expiration = NoExpiration \/ t + b < c.expiration)
        IN  /\ fn_out.value = (IF Fresh(fn_in.buffer) THEN c.secret ELSE NoSecret)
            /\ fn_out.dflt = (IF Fresh(30) THEN c.secret ELSE NoSecret)
            /\ (c # NoToken /\ c.expiration = t + 20) => fn_out.dflt = NoSecret
            /\ (c # NoToken /\ c.expiration = t + 30) => fn_out.dflt = NoSecret
            /\ (c # NoToken /\ c.expiration = t + 40) => fn_out.dflt = c.secret

C5_Witness ==
    /\ fn_in.fn = "valid_token_with_buffer"
    /\ fn_out.done
    /\ fn_in.cache # NoToken
    /\ fn_in.buffer = 30
    /\ fn_in.cache.expiration = fn_in.now + 30
    /\ fn_out.value = NoSecret

\* C9: the TTL fetch_token returns is the 60-second default when the
\* provider's expiry lies less than 60 seconds or more than 15 days ahead,
\* and the reported time-to-live otherwise.
C9_TtlClamped ==
    (fn_in.fn = "fetch_token_ttl" /\ fn_out.done) =>
        LET d == fn_in.unix_ts - fn_in.now
        IN  fn_out.value =
                IF d < 60 * 1000 \/ d \div 1000 > 15 * 24 * 3600
                THEN 60 * 1000
                ELSE d

\* C25: a stream sent by a SearchBuilder on which set_page_fetch_delay was
\* not called waits 500 ms between page fetches.
C25_DefaultDelay500 ==
    (fn_in.fn = "send" /\ fn_out.done /\ fn_in.delay = NotCalled) =>
        fn_out.value.stream.page_fetch_delay = 500

----------------------------------------------------------------------------
(* SearchStream's operations (src/src/api/search.rs) *)

\* a variant of start_fetch that forgets the cap on pages
StartFetchUncapped(s) ==
    IF s.finished
    THEN s
    ELSE [s EXCEPT !.fetch_future = TRUE]

\* a variant of start_fetch whose page limit is off by one
StartFetchOffByOne(s) ==
    IF s.finished \/ s.pages_fetched > s.max_pages
    THEN s
    ELSE [s EXCEPT !.fetch_future = TRUE]

\* SearchStream::start_fetch: the stream once the fetch future is stored
start_fetch(s) ==
    IF s.finished \/ s.pages_fetched >= s.max_pages
    THEN s
    ELSE [s EXCEPT !.fetch_future = TRUE]

\* a variant of FetchRequest that builds the request from fresh parameters
FetchRequestFromDefaults(s, p) == to_params(s.current_start, NoNum)

\* start_fetch: the parameters of the request it builds, a clone of the
\* stream's params with start replaced
FetchRequest(s, p) == [p EXCEPT !.start = s.current_start]

\* a variant of process_response that stops at the sentinel without buffering
\* the page that carried it
ProcessResponseDropLast(s, response) ==
    LET done == response.next_start = NoMorePages \/ response.next_start <= s.current_start
    IN  [s EXCEPT !.pages_fetched = @ + 1,
                  !.next_start = response.next_start,
                  !.finished = done \/ response.results = << >>,
                  !.current_start = IF done THEN @ ELSE response.next_start,
                  !.buffer = IF done THEN @ ELSE @ \o response.results]

\* a variant of process_response that stops only when the cursor moves back
ProcessResponseStrictlyLess(s, response) ==
    LET s1 == [s EXCEPT !.pages_fetched = @ + 1,
                        !.next_start = response.next_start]
        s2 == IF s1.next_start = NoMorePages \/ s1.next_start < s1.current_start
              THEN [s1 EXCEPT !.finished = TRUE]
              ELSE [s1 EXCEPT !.current_start = s1.next_start]
    IN  IF response.results = << >>
        THEN [s2 EXCEPT !.finished = TRUE]
        ELSE [s2 EXCEPT !.buffer = @ \o response.results]

\* a variant of process_response that goes on after an empty page
ProcessResponseIgnoreEmpty(s, response) ==
    LET s1 == [s EXCEPT !.pages_fetched = @ + 1,
                        !.next_start = response.next_start]
    IN  IF s1.next_start = NoMorePages \/ s1.next_start <= s1.current_start
        THEN [s1 EXCEPT !.finished = TRUE, !.buffer = @ \o response.results]
        ELSE [s1 EXCEPT !.current_start = s1.next_start,
                        !.buffer = @ \o response.results]

\* a variant of process_response that never moves current_start
ProcessResponseKeepCursor(s, response) ==
    LET s1 == [s EXCEPT !.pages_fetched = @ + 1,
                        !.next_start = response.next_start]
        s2 == IF s1.next_start = NoMorePages \/ s1.next_start <= s1.current_start
              THEN [s1 EXCEPT !.finished = TRUE]
              ELSE s1
    IN  IF response.results = << >>
        THEN [s2 EXCEPT !.finished = TRUE]
        ELSE [s2 EXCEPT !.buffer = @ \o response.results]

\* SearchStream::process_response
process_response(s, response) ==
    LET s1 == [s EXCEPT !.pages_fetched = @ + 1,
                        !.next_start = response.next_start]
        s2 == IF s1.next_start = NoMorePages \/ s1.next_start <= s1.current_start
              THEN [s1 EXCEPT !.finished = TRUE]
              ELSE [s1 EXCEPT !.current_start = s1.next_start]
    IN  IF response.results = << >>
        THEN [s2 EXCEPT !.finished = TRUE]
        ELSE [s2 EXCEPT !.buffer = @ \o response.results]

\* a variant of AfterFetchOk that requests the next page as soon as one arrives
AfterFetchOkPrefetch(s, response) ==
    LET s1 == process_response([s EXCEPT !.fetch_future = FALSE], response)
    IN  IF ~s1.finished /\ s1.pages_fetched > 0 /\ s1.page_fetch_delay # 0
        THEN [s1 EXCEPT !.delay_future = TRUE]
        ELSE start_fetch(s1)

\* a variant of AfterFetchOk that never arms the delay
AfterFetchOkNoDelay(s, response) ==
    process_response([s EXCEPT !.fetch_future = FALSE], response)

\* poll_next's Ready(Ok(response)) arm: process_response, then arm the delay
AfterFetchOk(s, response) ==
    LET s1 == process_response([s EXCEPT !.fetch_future = FALSE], response)
    IN  IF ~s1.finished /\ s1.pages_fetched > 0 /\ s1.page_fetch_delay # 0
        THEN [s1 EXCEPT !.delay_future = TRUE]
        ELSE s1

\* a variant of OnFetchErr that suspends the consumer on the failed fetch
OnFetchErrPending(m) ==
    [m EXCEPT !.s.fetch_future = FALSE,
              !.s.finished = TRUE,
              !.reply = NoReply,
              !.taken = Append(@, m.reply),
              !.result = "pending"]

\* a variant of OnFetchErr that reports completion but leaves the stream open
OnFetchErrNotFinished(m) ==
    [m EXCEPT !.s.fetch_future = FALSE,
              !.reply = NoReply,
              !.taken = Append(@, m.reply),
              !.result = "done"]

\* poll_next's Ready(Err(_)) arm: the fetch future was taken, the error is
\* dropped, finished is set and the poll returns Ready(None)
OnFetchErr(m) ==
    [m EXCEPT !.s.fetch_future = FALSE,
              !.s.finished = TRUE,
              !.reply = NoReply,
              !.taken = Append(@, m.reply),
              !.result = "done"]

\* a variant of PollLoop that looks at finished before it looks at the buffer
RECURSIVE PollLoopFinishedFirst(_)
PollLoopFinishedFirst(m) ==
    IF m.s.finished
    THEN [m EXCEPT !.result = "done"]
    ELSE IF m.s.buffer # << >>
    THEN [m EXCEPT !.s.buffer = Tail(@), !.result = "item", !.item = Head(m.s.buffer)]
    ELSE IF m.s.delay_future
    THEN IF m.elapsed
         THEN PollLoopFinishedFirst([m EXCEPT !.s.delay_future = FALSE, !.elapsed = FALSE])
         ELSE [m EXCEPT !.result = "pending"]
    ELSE IF m.s.fetch_future
    THEN IF ~m.reply.ready
         THEN [m EXCEPT !.result = "pending"]
         ELSE IF m.reply.ok
         THEN PollLoopFinishedFirst([m EXCEPT !.s = AfterFetchOk(m.s, m.reply),
                                              !.reply = NoReply,
                                              !.elapsed = FALSE,
                                              !.taken = Append(@, m.reply)])
         ELSE OnFetchErr(m)
    ELSE LET s1 == start_fetch(m.s)
         IN  IF ~s1.fetch_future
             THEN [m EXCEPT !.result = "done"]
             ELSE PollLoopFinishedFirst(
                      [m EXCEPT !.s = s1,
                                !.started = Append(@, FetchRequest(s1, m.params))])

\* SearchStream::poll_next: the loop, run until it returns.  m carries the
\* stream (s) and its params, the pending response (reply), the timer
\* (elapsed), the parameters of the requests issued and the responses taken by
\* this call (started, taken) and what the call returns (result, item).  A
\* fetch future polled right after start_fetch is pending: its request has
\* only just left.
RECURSIVE PollLoop(_)
PollLoop(m) ==
    IF m.s.buffer # << >>
    THEN [m EXCEPT !.s.buffer = Tail(@), !.result = "item", !.item = Head(m.s.buffer)]
    ELSE IF m.s.finished
    THEN [m EXCEPT !.result = "done"]
    ELSE IF m.s.delay_future
    THEN IF m.elapsed
         THEN PollLoop([m EXCEPT !.s.delay_future = FALSE, !.elapsed = FALSE])
         ELSE [m EXCEPT !.result = "pending"]
    ELSE IF m.s.fetch_future
    THEN IF ~m.reply.ready
         THEN [m EXCEPT !.result = "pending"]
         ELSE IF m.reply.ok
         THEN PollLoop([m EXCEPT !.s = AfterFetchOk(m.s, m.reply),
                                 !.reply = NoReply,
                                 !.elapsed = FALSE,
                                 !.taken = Append(@, m.reply)])
         ELSE OnFetchErr(m)
    ELSE LET s1 == start_fetch(m.s)
         IN  IF ~s1.fetch_future
             THEN [m EXCEPT !.result = "done"]
             ELSE PollLoop([m EXCEPT !.s = s1,
                                     !.started = Append(@, FetchRequest(s1, m.params))])

----------------------------------------------------------------------------
(* GroupSearchStream's operations (src/src/api/community/groups/search.rs) *)

\* GroupSearchStream::start_fetch: the stream once the fetch future is stored
group_start_fetch(s) ==
    IF s.finished \/ s.pages_fetched >= s.max_pages
    THEN s
    ELSE [s EXCEPT !.fetch_future = TRUE]

\* GroupSearchStream::start_fetch: the parameters of the request it builds
GroupFetchRequest(s, p) == [p EXCEPT !.start = s.current_start]

\* GroupSearchStream::process_response
group_process_response(s, response) ==
    LET s1 == [s EXCEPT !.pages_fetched = @ + 1,
                        !.next_start = response.next_start]
        s2 == IF s1.next_start = NoMorePages \/ s1.next_start <= s1.current_start
              THEN [s1 EXCEPT !.finished = TRUE]
              ELSE [s1 EXCEPT !.current_start = s1.next_start]
    IN  IF response.results = << >>
        THEN [s2 EXCEPT !.finished = TRUE]
        ELSE [s2 EXCEPT !.buffer = @ \o response.results]

\* a variant of GroupAfterFetchOk that arms the timer only while pages remain
\* under the cap, as the comment above the test says
GroupAfterFetchOkUnderCap(s, response) ==
    LET s1 == group_process_response([s EXCEPT !.fetch_future = FALSE], response)
    IN  IF ~s1.finished /\ s1.pages_fetched < s1.max_pages /\ s1.page_fetch_delay # 0
        THEN [s1 EXCEPT !.delay_future = TRUE]
        ELSE s1

\* GroupSearchStream::poll_next's Ready(Ok(response)) arm
GroupAfterFetchOk(s, response) ==
    LET s1 == group_process_response([s EXCEPT !.fetch_future = FALSE], response)
    IN  IF ~s1.finished /\ s1.pages_fetched > 0 /\ s1.page_fetch_delay # 0
        THEN [s1 EXCEPT !.delay_future = TRUE]
        ELSE s1

\* GroupSearchStream::poll_next's Ready(Err(_)) arm
GroupOnFetchErr(m) ==
    [m EXCEPT !.s.fetch_future = FALSE,
              !.s.finished = TRUE,
              !.reply = NoReply,
              !.taken = Append(@, m.reply),
              !.result = "done"]

\* GroupSearchStream::poll_next: the loop, run until it returns
RECURSIVE GroupPollLoop(_)
GroupPollLoop(m) ==
    IF m.s.buffer # << >>
    THEN [m EXCEPT !.s.buffer = Tail(@), !.result = "item", !.item = Head(m.s.buffer)]
    ELSE IF m.s.finished
    THEN [m EXCEPT !.result = "done"]
    ELSE IF m.s.delay_future
    THEN IF m.elapsed
         THEN GroupPollLoop([m EXCEPT !.s.delay_future = FALSE, !.elapsed = FALSE])
         ELSE [m EXCEPT !.result = "pending"]
    ELSE IF m.s.fetch_future
    THEN IF ~m.reply.ready
         THEN [m EXCEPT !.result = "pending"]
         ELSE IF m.reply.ok
         THEN GroupPollLoop([m EXCEPT !.s = GroupAfterFetchOk(m.s, m.reply),
                                      !.reply = NoReply,
                                      !.elapsed = FALSE,
                                      !.taken = Append(@, m.reply)])
         ELSE GroupOnFetchErr(m)
    ELSE LET s1 == group_start_fetch(m.s)
         IN  IF ~s1.fetch_future
             THEN [m EXCEPT !.result = "done"]
             ELSE GroupPollLoop([m EXCEPT !.s = s1,
                                          !.started = Append(@, GroupFetchRequest(s1, m.params))])

----------------------------------------------------------------------------
(* One stream with its consumer, its server and its timer: SpecStream *)

\* what the history keeps of a response
ReplyRecord(r) ==
    [ok |-> r.ok,
     n |-> IF r.ok THEN Len(r.results) ELSE 0,
     next_start |-> IF r.ok THEN r.next_start ELSE NoMorePages]

\* SearchBuilder::send and GroupSearchBuilder::send, after set_start,
\* set_max_pages and set_page_fetch_delay
InitStream ==
    /\ auth_state = [kind |-> "None", expiration |-> 0]
    /\ AuthIdle
    /\ PureIdle
    /\ HandlesIdle
    /\ LockIdle
    /\ endpoint \in Endpoints
    /\ \E start \in StartChoices, num \in NumChoices : params = to_params(start, num)
    /\ \E mp \in (0..MaxPageCap) \cup {UsizeMax}, d \in PageDelays :
           stream = NewStream(mp, d)
    /\ reply = NoReply
    /\ elapsed = FALSE
    /\ requests = << >>
    /\ sent = << >>
    /\ replies = << >>
    /\ served = 0
    /\ yielded = << >>
    /\ last_poll = "none"

\* one call of poll_next on the stream as it stands
PollOnce ==
    LET m0 == [s |-> stream, params |-> params, reply |-> reply, elapsed |-> elapsed,
               started |-> << >>, taken |-> << >>, result |-> "none", item |-> 0]
    IN  IF endpoint = "search" THEN PollLoop(m0) ELSE GroupPollLoop(m0)

\* the consumer polls the stream once
Poll ==
    LET m == PollOnce
    IN  /\ stream' = m.s
        /\ reply' = m.reply
        /\ elapsed' = m.elapsed
        /\ requests' = requests \o [k \in 1..Len(m.started) |-> m.started[k].start]
        /\ sent' = sent \o m.started
        /\ params' = m.params
        /\ UNCHANGED endpoint
        /\ replies' = replies \o [k \in 1..Len(m.taken) |-> ReplyRecord(m.taken[k])]
        /\ yielded' = IF m.result = "item" THEN Append(yielded, m.item) ELSE yielded
        /\ last_poll' = m.result
        /\ UNCHANGED <<authVars, pureVars, handleVars, lockVars, served>>

\* the server answers the page request in flight with n items and a next_start
ServerReply(n, next) ==
    /\ stream.fetch_future
    /\ ~reply.ready
    /\ reply' = [ready |-> TRUE, ok |-> TRUE,
                 results |-> [k \in 1..n |-> served + k],
                 next_start |-> next]
    /\ served' = served + n
    /\ UNCHANGED <<authVars, pureVars, handleVars, lockVars, sendVars, stream,
                   elapsed, requests, sent, replies,
                   yielded, last_poll>>

\* the page request in flight fails
ServerError ==
    /\ stream.fetch_future
    /\ ~reply.ready
    /\ reply' = [ready |-> TRUE, ok |-> FALSE]
    /\ UNCHANGED <<authVars, pureVars, handleVars, lockVars, sendVars, stream,
                   elapsed, requests, sent, replies, served,
                   yielded, last_poll>>

\* the delay timer runs out
TimerFire ==
    /\ stream.delay_future
    /\ ~elapsed
    /\ elapsed' = TRUE
    /\ UNCHANGED <<authVars, pureVars, handleVars, lockVars, sendVars, stream,
                   reply, requests, sent, replies, served,
                   yielded, last_poll>>

NextStream ==
    \/ Poll
    \/ \E n \in 0..MaxItems, next \in NextStarts : ServerReply(n, next)
    \/ ServerError
    \/ TimerFire

SpecStream == InitStream /\ [][NextStream]_vars

\* the responses taken so far are all successful and non-empty, each but the
\* last reports a next_start beyond the start it was asked for, and the last
\* reports the sentinel
SentinelRun ==
    /\ stream.max_pages = UsizeMax
    /\ replies # << >>
    /\ \A k \in 1..Len(replies) :
          /\ replies[k].ok
          /\ replies[k].n > 0
          /\ k < Len(replies) => replies[k].next_start > requests[k]
    /\ replies[Len(replies)].next_start = NoMorePages

\* the number of items in the responses taken so far
RECURSIVE ItemsTaken(_)
ItemsTaken(k) == IF k = 0 THEN 0 ELSE ItemsTaken(k - 1) + replies[k].n

\* C10: with max_pages unlimited, after successful non-empty pages with
\* advancing cursors that end with the sentinel, the stream issues no further
\* request, never suspends again, yields the items in the order served, and by
\* the time it reports completion it has yielded every item of every page once.
C10_SentinelTermination ==
    /\ \A k \in 1..Len(yielded) : yielded[k] = k
    /\ SentinelRun =>
          /\ Len(requests) = Len(replies)
          /\ last_poll \in {"item", "done"}
          /\ Len(yielded) + Len(stream.buffer) = ItemsTaken(Len(replies))
          /\ last_poll = "done" => Len(yielded) = ItemsTaken(Len(replies))

C10_Witness ==
    /\ SentinelRun
    /\ last_poll = "done"
    /\ requests = <<1, 3, 5>>
    /\ yielded = <<1, 2, 3, 4, 5, 6>>

\* the page requests issued and not yet answered to the stream
InFlight == Len(requests) - Len(replies)

\* response k reports a next_start that does not pass the start it was asked for
NonAdvancing(k) == replies[k].ok /\ replies[k].next_start <= requests[k]

\* C11: when a successful page reports a next_start less than or equal to the
\* start requested for it, that page is the last one requested by either
\* stream: the stream is finished with no fetch and no timer pending, it
\* never suspends again, the page's items are yielded, and completion is
\* reported once they all are.
C11_NonAdvancingCursor ==
    \A k \in 1..Len(replies) :
        NonAdvancing(k) =>
            /\ k = Len(replies)
            /\ Len(requests) = k
            /\ stream.finished /\ ~stream.fetch_future /\ ~stream.delay_future
            /\ last_poll \in {"item", "done"}
            /\ Len(yielded) + Len(stream.buffer) = ItemsTaken(k)
            /\ last_poll = "done" => Len(yielded) = ItemsTaken(k)

C11_Witness ==
    /\ endpoint = "community/groups"
    /\ Len(replies) = 2
    /\ requests[2] = 3
    /\ replies[2].ok /\ replies[2].next_start = 3 /\ replies[2].n = 2
    /\ last_poll = "done"
    /\ yielded = <<1, 2, 3, 4>>

\* C12: a stream built with max_pages = M issues at most M page requests;
\* every item of every page it took is yielded or still buffered, and none is
\* buffered when completion is reported; with M = 0 it completes with no
\* request and no item; when no page holds more than num items it yields at
\* most M x num items.
C12_MaxPagesCap ==
    /\ Len(requests) <= stream.max_pages
    /\ Len(yielded) + Len(stream.buffer) = ItemsTaken(Len(replies))
    /\ last_poll = "done" => stream.buffer = << >>
    /\ stream.max_pages = 0 =>
          (requests = << >> /\ yielded = << >> /\ last_poll \in {"none", "done"})
    /\ \A num \in 0..MaxItems :
          (/\ stream.max_pages <= MaxPageCap
           /\ \A k \in 1..Len(replies) : replies[k].n <= num)
              => Len(yielded) <= stream.max_pages * num

C12_Witness ==
    /\ stream.max_pages = 2
    /\ Len(requests) = 2
    /\ Len(replies) = 2
    /\ replies[2].ok /\ replies[2].next_start > requests[2]
    /\ ~stream.finished
    /\ last_poll = "done"
    /\ Len(yielded) = 4

\* C13: when a page request fails, it is the last request: the poll that
\* takes the error reports completion, the stream is finished with no fetch
\* and no timer pending, no later poll reports anything else, and every item
\* of the pages taken before had already been yielded.
C13_FetchErrorSilent ==
    \A k \in 1..Len(replies) :
        ~replies[k].ok =>
            /\ k = Len(replies)
            /\ Len(requests) = k
            /\ stream.finished /\ ~stream.fetch_future /\ ~stream.delay_future
            /\ last_poll = "done"
            /\ stream.buffer = << >>
            /\ Len(yielded) = ItemsTaken(k - 1)

C13_Witness ==
    /\ Len(replies) = 2
    /\ replies[1].ok /\ replies[1].n = 2
    /\ ~replies[2].ok
    /\ yielded = <<1, 2>>
    /\ last_poll = "done"

\* C14: at most one page request is in flight, exactly when the fetch future
\* is stored; a fetch future and a delay timer are never both stored; while a
\* request is in flight the buffer is empty and every item of the pages taken
\* has been yielded; and a request is issued only by a poll that found the
\* buffer empty, one request per poll, so that without polls none is issued.
C14_NoPrefetch ==
    /\ [](/\ InFlight = (IF stream.fetch_future THEN 1 ELSE 0)
          /\ ~(stream.fetch_future /\ stream.delay_future)
          /\ stream.fetch_future =>
                (/\ stream.buffer = << >>
                 /\ Len(yielded) = ItemsTaken(Len(replies))))
    /\ [][ requests' # requests =>
              /\ Poll
              /\ stream.buffer = << >>
              /\ ~stream.fetch_future
              /\ Len(requests') = Len(requests) + 1
              /\ last_poll' = "pending"
         ]_vars

C14_Witness ==
    /\ yielded = <<1>>
    /\ stream.buffer = <<2>>
    /\ ~stream.finished
    /\ stream.pages_fetched < stream.max_pages
    /\ Len(requests) = 1
    /\ ~stream.fetch_future

\* C15: with a non-zero page_fetch_delay every page request after the first
\* is issued by a poll that found the delay timer armed and run out; the
\* timer is armed, not yet run out, only in the poll that takes a successful
\* response; with page_fetch_delay = 0 no timer is ever armed.
C15_InterPagePacing ==
    /\ [](stream.page_fetch_delay = 0 => ~stream.delay_future)
    /\ [][ /\ (stream.page_fetch_delay # 0 /\ requests # << >> /\ requests' # requests) =>
                 (stream.delay_future /\ elapsed /\ ~stream'.delay_future)
           /\ (~stream.delay_future /\ stream'.delay_future) =>
                 /\ Len(replies') = Len(replies) + 1
                 /\ replies'[Len(replies')].ok
                 /\ ~elapsed'
         ]_vars

C15_Witness ==
    /\ stream.page_fetch_delay = 100
    /\ Len(requests) = 2
    /\ Len(replies) = 1
    /\ stream.fetch_future
    /\ ~stream.delay_future

\* C16: a successful page with no items is the last page requested, whatever
\* next_start it reports: the stream is finished with no fetch and no timer
\* pending, and the poll that takes it and every later poll report completion.
C16_EmptyPageEnds ==
    \A k \in 1..Len(replies) :
        (replies[k].ok /\ replies[k].n = 0) =>
            /\ k = Len(replies)
            /\ Len(requests) = k
            /\ stream.finished /\ ~stream.fetch_future /\ ~stream.delay_future
            /\ last_poll = "done"
            /\ Len(yielded) = ItemsTaken(k)

C16_Witness ==
    /\ Len(replies) = 2
    /\ requests[2] = 3
    /\ replies[2].ok /\ replies[2].n = 0 /\ replies[2].next_start = 5
    /\ stream.max_pages = UsizeMax
    /\ last_poll = "done"

\* C17: once a poll has reported completion, the next poll reports completion
\* again, yields nothing, issues no request and leaves the stream as it is,
\* and no step changes that.
C17_FinishedTerminal ==
    /\ [](last_poll = "done" =>
             /\ PollOnce.result = "done"
             /\ PollOnce.started = << >>
             /\ PollOnce.s = stream
             /\ ~stream.fetch_future /\ ~stream.delay_future)
    /\ [][ last_poll = "done" =>
              (last_poll' = "done" /\ yielded' = yielded /\ requests' = requests)
         ]_vars

C17_Witness ==
    /\ last_poll = "done"
    /\ ~stream.finished
    /\ stream.page_fetch_delay = 100
    /\ stream.pages_fetched = stream.max_pages
    /\ Len(replies) = 1
    /\ yielded = <<1, 2>>

\* C18: when set_start(s) was called on the builder, the first page request
\* of the stream asks for start = s.
C18_SetStartHonoured ==
    (params.start # NoStart /\ requests # << >>) => requests[1] = params.start

\* C26: a delay timer is stored only while the stream is not finished, has
\* fetched fewer than max_pages pages and has a non-zero delay, and it is
\* stored whenever those hold after a successful page and before the next
\* request; once max_pages pages are fetched the stream never suspends.
C26_DelayTransitionRule ==
    LET more == /\ ~stream.finished
                /\ stream.pages_fetched < stream.max_pages
                /\ stream.page_fetch_delay # 0
    IN  /\ stream.delay_future => more
        /\ (replies # << >> /\ Len(requests) = Len(replies) /\ more) => stream.delay_future
        /\ stream.pages_fetched >= stream.max_pages => last_poll # "pending"

\* C27: each page request after the first asks for the next_start that the
\* response before it reported, and the starts requested strictly increase.
C27_CursorOrder ==
    \A k \in 1..(Len(requests) - 1) :
        /\ k <= Len(replies)
        /\ replies[k].ok
        /\ requests[k + 1] = replies[k].next_start
        /\ requests[k + 1] > requests[k]

C27_Witness ==
    /\ requests = <<1, 2, 5>>
    /\ Len(replies) = 2
    /\ stream.fetch_future

\* C28: whenever the buffer is non-empty, a poll returns its front item and
\* does nothing else: the response in flight, the timer and the other fields
\* of the stream are as they were and no request is issued, whether finished
\* is set or a delay timer is stored, run out or not.
C28_DrainingPriority ==
    stream.buffer # << >> =>
        /\ PollOnce.result = "item"
        /\ PollOnce.item = Head(stream.buffer)
        /\ PollOnce.s = [stream EXCEPT !.buffer = Tail(@)]
        /\ PollOnce.reply = reply
        /\ PollOnce.elapsed = elapsed
        /\ PollOnce.started = << >>
        /\ PollOnce.taken = << >>

C28_Witness ==
    /\ stream.buffer = <<2>>
    /\ yielded = <<1>>
    /\ last_poll = "item"
    /\ stream.delay_future
    /\ elapsed

C30_ParamsStable ==
    /\ [](/\ Len(sent) = Len(requests)
          /\ \A k \in 1..Len(sent) : sent[k] = [params EXCEPT !.start = requests[k]])
    /\ [][params' = params]_vars

C30_Witness ==
    /\ params = to_params(3, 2)
    /\ Len(sent) = 2
    /\ sent[1] = to_params(1, 2)
    /\ sent[2] = to_params(4, 2)

\* C37: from every state either stream reaches, one poll of SearchStream and
\* one poll of GroupSearchStream give the same result, the same yielded
\* item, the same page requests and the same next state (cursor, counters,
\* buffer, fetch in flight, timer armed, finished), and take the same
\* response; both start from the same state, so given the same outcomes and
\* polls they pass through the same states.
C37_SameStateMachine ==
    LET m0 == [s |-> stream, params |-> params, reply |-> reply, elapsed |-> elapsed,
               started |-> << >>, taken |-> << >>, result |-> "none", item |-> 0]
    IN  /\ PollLoop(m0) = GroupPollLoop(m0)
        /\ start_fetch(stream) = group_start_fetch(stream)
        /\ FetchRequest(stream, params) = GroupFetchRequest(stream, params)

C37_Witness ==
    /\ endpoint = "community/groups"
    /\ stream.max_pages = 2
    /\ stream.page_fetch_delay # 0
    /\ Len(requests) = 2
    /\ reply.ready /\ reply.ok
    /\ Len(reply.results) = MaxItems
    /\ reply.next_start > stream.current_start

----------------------------------------------------------------------------
(* Claims about execute, checked under Spec *)

InSlowPath(i) == pc[i] \in {"recheck", "fetching", "release", "failed"}
HoldsToken(i) == pc[i] \in {"release", "attach", "sent"}

\* C1 (as stated): a caller that waited on the refresh gate while another
\* caller's refresh succeeded never fetches itself and uses the secret that
\* refresh installed, so one fetch serves all the concurrent callers.
C1_SingleFlight ==
    \A j \in Callers :
        waited[j] # NoSecret =>
            /\ pc[j] # "fetching"
            /\ HoldsToken(j) => tok[j] = waited[j]

\* C1 (amended): the same, unless a 401 response cleared the cache after that
\* refresh and before the waiting caller's re-check.
C1_SingleFlightUnlessInvalidated ==
    \A j \in Callers :
        (waited[j] # NoSecret /\ ~invalidated[j]) =>
            /\ pc[j] \notin {"fetching", "failed"}
            /\ HoldsToken(j) => tok[j] = waited[j]
            /\ (pc[j] = "sent" /\ req[j] = PortalAuthority) => out[j].header = waited[j]

C1_Witness ==
    \E j \in Callers :
        /\ waited[j] # NoSecret
        /\ ~invalidated[j]
        /\ pc[j] = "sent"
        /\ out[j].header = waited[j]

\* C2: a 401 response received by a credentialed handle leaves the cache
\* empty, whatever the request's host and whatever the token's expiration
\* says, and the cache stays empty until a refresh stores a new token.
C2_ReactiveInvalidation ==
    [][ /\ \A i \in Callers :
            (pc[i] = "sent" /\ n401' = n401 + 1 /\ auth_state.kind = "LegacyToken") =>
                (cache' = NoToken /\ valid_token(cache', now') = NoSecret)
        /\ (cache = NoToken /\ cache' # NoToken) => Len(issued') = Len(issued) + 1
      ]_vars

C2_Witness ==
    /\ n401 = 1
    /\ Len(issued) = 1
    /\ cache = NoToken
    /\ valid_token(CacheSet(1, NoExpiration), now) # NoSecret

\* C3: a dispatched request carries X-Esri-Authorization exactly when the
\* handle has credentials and the request's authority is the portal's, and
\* the header then holds the caller's token.
C3_HostScopedHeader ==
    \A i \in Callers :
        out[i].sent =>
            /\ out[i].header # NoSecret <=>
                   (auth_state.kind = "LegacyToken" /\ req[i] = PortalAuthority)
            /\ out[i].header # NoSecret => out[i].header = tok[i]

C3_Witness ==
    \E i, j \in Callers :
        /\ out[i].sent /\ req[i] = PortalAuthority /\ out[i].header # NoSecret
        /\ out[j].sent /\ req[j].host = PortalAuthority.host /\ req[j] # PortalAuthority
        /\ out[j].header = NoSecret

\* C4: after a successful refresh the cache holds the fetched secret with the
\* expiration "time of the refresh plus the TTL the provider returned".
C4_ExpirationStored ==
    [][ \A i \in Callers :
            (pc[i] = "fetching" /\ Len(issued') = Len(issued) + 1) =>
                LET s == Len(issued')
                    ttl_ms == FetchTtl(issued'[s] * 1000, now * 1000)
                IN  cache' = CacheSet(s, now + (ttl_ms \div 1000))
      ]_vars

\* C6: a cache read of execute (fast path or re-check) never hands out a
\* secret with fewer than 30 seconds left before the expiry the provider
\* reported for it.
C6_NoUseNearExpiry ==
    [][ \A i \in Callers :
            (pc[i] \in {"idle", "recheck"} /\ pc'[i] \in {"attach", "release"}
             /\ tok'[i] # NoSecret) =>
                issued[tok'[i]] - now >= DefaultBufferSecs
      ]_vars

\* C7: when the provider fetch fails, the caller goes to the error exit, its
\* request is never dispatched, and the fetch writes nothing to the cache, which
\* is as empty as the re-check found it.
C7_ProviderFailure ==
    /\ [](\A i \in Callers : pc[i] \in {"fetching", "failed"} => cache = NoToken)
    /\ [][ \A i \in Callers :
              /\ (pc[i] = "fetching" /\ pc'[i] # "fetching" /\ issued' = issued) =>
                     (pc'[i] = "failed" /\ cache' = cache /\ out'[i] = NotSent)
              /\ pc[i] = "failed" =>
                     (pc'[i] \in {"failed", "idle"} /\ out'[i] = NotSent)
          ]_vars

C7_Witness ==
    \E i \in Callers : pc[i] = "failed" /\ cache = NoToken /\ out[i] = NotSent

\* C8: the refresh gate is held by a caller exactly while that caller is in
\* the slow path; once it has left (with a token or with an error) the gate is
\* no longer its own.
C8_GateReleased ==
    \A i \in Callers : gate = i <=> InSlowPath(i)

C8_Witness ==
    \E j \in Callers : gate = j /\ pc[j] = "recheck" /\ waited[j] # NoSecret

\* the stages of one execute() call, in the order the code passes them
Rank(p) ==
    CASE p = "idle" -> 0
      [] p = "lock" -> 1
      [] p = "recheck" -> 2
      [] p = "fetching" -> 3
      [] p \in {"release", "failed"} -> 4
      [] p = "attach" -> 5
      [] p = "sent" -> 6

\* C19: a call's request is outstanding exactly while the call awaits its
\* response, and it is dispatched once, from the attach stage; the step that
\* brings the response ends the call: the caller is back to idle with no
\* provider fetch, no gate taken and no second dispatch, having cleared the
\* cache when the response is a 401 for a credentialed handle and left it
\* alone otherwise.
C19_NoRetryOn401 ==
    /\ [](\A i \in Callers : out[i].sent <=> pc[i] = "sent")
    /\ [][ \A i \in Callers :
              /\ (pc[i] # "sent" /\ pc'[i] = "sent") => pc[i] = "attach"
              /\ (pc[i] = "sent" /\ pc'[i] # "sent") =>
                    /\ pc'[i] = "idle"
                    /\ out'[i] = NotSent
                    /\ issued' = issued
                    /\ gate' = gate
                    /\ (n401' = n401 + 1 /\ auth_state.kind = "LegacyToken") =>
                           cache' = NoToken
                    /\ (n401' = n401 \/ auth_state.kind = "None") => cache' = cache
         ]_vars

C19_Witness ==
    /\ n401 = 1
    /\ auth_state.kind = "LegacyToken"
    /\ cache = NoToken
    /\ Len(issued) = 1
    /\ \A i \in Callers : pc[i] = "idle" /\ out[i] = NotSent

\* C20: within one execute() call the stages only advance until the call
\* returns, so the call is at the provider fetch at most once, and each
\* provider fetch is made by one caller at that stage, which leaves it for
\* the release with a token or for the error exit.
C20_NoProviderRetry ==
    [][ /\ \A i \in Callers :
              /\ pc'[i] # pc[i] =>
                    \/ Rank(pc'[i]) > Rank(pc[i])
                    \/ pc'[i] = "idle" /\ pc[i] \in {"failed", "sent"}
              /\ (pc[i] = "fetching" /\ pc'[i] # "fetching") =>
                    pc'[i] \in {"release", "failed"}
        /\ issued' # issued =>
              /\ Len(issued') = Len(issued) + 1
              /\ \E i \in Callers : pc[i] = "fetching" /\ pc'[i] = "release"
      ]_vars

C20_Witness ==
    \E i, j \in Callers :
        /\ pc[i] = "failed"
        /\ pc[j] = "sent"
        /\ out[j].header # NoSecret
        /\ n401 = 1
        /\ Len(issued) = 1

\* C21: a handle whose auth state is None never attaches a header, to the
\* portal or elsewhere, never enters the slow path, never asks the provider
\* for a token, and keeps its cache and gate untouched, 401 responses
\* included.
C21_Unauthenticated ==
    auth_state.kind = "None" =>
        /\ cache = NoToken
        /\ gate = 0
        /\ issued = << >>
        /\ \A i \in Callers :
              /\ pc[i] \in {"idle", "attach", "sent"}
              /\ tok[i] = NoSecret
              /\ out[i].header = NoSecret

C21_Witness ==
    /\ auth_state.kind = "None"
    /\ n401 = 1
    /\ \E i \in Callers : out[i].sent /\ req[i] = PortalAuthority /\ out[i].header = NoSecret

\* C24: at most one caller of the handle is inside the provider fetch, and
\* that caller holds the refresh gate.
C24_OneFetchInFlight ==
    /\ \A i, j \in Callers : (pc[i] = "fetching" /\ pc[j] = "fetching") => i = j
    /\ \A i \in Callers : pc[i] = "fetching" => gate = i

C24_Witness ==
    \E i, j \in Callers :
        /\ i # j
        /\ pc[i] = "fetching"
        /\ pc[j] = "lock"
        /\ n401 = 1
        /\ Len(issued) = 1

\* C31: on a credentialed handle whose cache holds a valid token, a caller
\* entering execute can take its first step whoever holds the refresh gate,
\* and that step takes the cached secret straight to the attach stage, with
\* the gate, the provider's record and the cache left as they were; from the
\* attach stage the request can be dispatched whoever holds the gate.
C31_FastPath ==
    \A i \in Callers :
        /\ (/\ auth_state.kind = "LegacyToken"
            /\ pc[i] = "idle"
            /\ valid_token(cache, now) # NoSecret) =>
               \A a \in Authorities :
                   /\ ENABLED FastPath(i, a)
                   /\ ~ ENABLED (/\ FastPath(i, a)
                                 /\ ~ (/\ pc'[i] = "attach"
                                       /\ tok'[i] = valid_token(cache, now)
                                       /\ gate' = gate
                                       /\ issued' = issued
                                       /\ cache' = cache))
        /\ pc[i] = "attach" => ENABLED Dispatch(i)

C31_Witness ==
    \E i, j \in Callers :
        /\ i # j
        /\ gate = j
        /\ pc[j] = "release"
        /\ waited[j] = NoSecret
        /\ tok[j] = 1
        /\ Len(issued) = 1
        /\ n401 = 0
        /\ pc[i] = "sent"
        /\ out[i].header = 1

\* the secrets issued so far that the cache, had it kept them, would no
\* longer hand out at the present time
ExpiredTokens ==
    {s \in 1..Len(issued) :
        valid_token(CacheSet(s, RefreshExpiration(now, 0)), now) = NoSecret}

\* C33: the number of successful provider fetches is at most one, plus the
\* number of 401 responses received, plus the number of cached tokens that
\* have expired; callers running side by side add nothing to it.
C33_FetchCountBound ==
    Len(issued) <= 1 + n401 + Cardinality(ExpiredTokens)

C33_Witness ==
    \E i, j \in Callers :
        /\ i # j
        /\ Len(issued) = 1
        /\ n401 = 0
        /\ now = MaxNow
        /\ waited[j] = 1
        /\ pc[i] = "sent" /\ out[i].header = 1
        /\ pc[j] = "sent" /\ out[j].header = 1

\* C36 (as stated): a call whose request goes to another authority than the
\* portal's is never at the provider fetch and never fails with the
\* provider's error.
C36_NonPortalNeedsNoProvider ==
    \A i \in Callers :
        req[i] # PortalAuthority => pc[i] \notin {"fetching", "failed"}

\* C36 (amended): on a credentialed handle a call whose request goes to
\* another authority than the portal's obtains a token like any other call:
\* it is dispatched only with a secret the provider issued in hand, and a
\* provider error ends it before any dispatch; the request it dispatches
\* carries no header.
C36_NonPortalStillRefreshes ==
    \A i \in Callers :
        (auth_state.kind = "LegacyToken" /\ req[i] # PortalAuthority) =>
            /\ pc[i] \in {"attach", "sent"} => tok[i] \in 1..Len(issued)
            /\ pc[i] = "failed" => (out[i] = NotSent /\ gate = i)
            /\ out[i].sent => out[i].header = NoSecret

C36_Witness ==
    \E i, j \in Callers :
        /\ req[i].host = "cdn"
        /\ pc[i] = "failed"
        /\ issued = << >>
        /\ req[j].host = "cdn"
        /\ pc[j] = "lock"

----------------------------------------------------------------------------
(* Claims about late 401 responses, checked under SpecLate *)

\* the request of caller i is in flight with a secret in its header, and the
\* cache holds another secret, which a refresh installed after the request
\* was sent
LateFor(i) ==
    /\ pc[i] = "sent"
    /\ out[i].header # NoSecret
    /\ cache # NoToken
    /\ cache.secret # out[i].header
    /\ cache.secret > out[i].epoch

\* C32 (as stated): a 401 response to a request that carried one secret
\* leaves in the cache a different secret that a refresh installed after the
\* request was sent.
C32_LateUnauthorizedSparesFresh ==
    [][ \A i \in Callers :
            (LateFor(i) /\ pc'[i] = "idle" /\ n401' = n401 + 1) => cache' = cache
      ]_vars

\* C32 (amended): a 401 response empties the cache whatever secret the cache
\* holds when the response arrives, a secret installed after the request was
\* sent included; it takes nothing from the calls in progress: every other
\* caller keeps its position, its token and its dispatched request, and the
\* gate and the provider's record are as before.
C32_UnauthorizedClearsCurrent ==
    [][ \A i \in Callers :
            (pc[i] = "sent" /\ pc'[i] = "idle" /\ n401' = n401 + 1) =>
                /\ cache' = NoToken
                /\ gate' = gate
                /\ issued' = issued
                /\ \A j \in Callers \ {i} :
                       pc'[j] = pc[j] /\ tok'[j] = tok[j] /\ out'[j] = out[j]
      ]_vars

C32_Witness ==
    \E i, j \in Callers :
        /\ i # j
        /\ LateFor(i)
        /\ out[i].header = 1
        /\ cache.secret = 2
        /\ n401 = 1
        /\ pc[j] = "sent"
        /\ out[j].header = 2
        /\ ENABLED (/\ Respond(i, "unauthorized")
                    /\ cache' = NoToken
                    /\ out'[j].header = 2)

----------------------------------------------------------------------------
(* Client handles, built or cloned: SpecHandles.  Every handle holds        *)
(* LegacyToken credentials and has one caller; the clock stands still.      *)

MaxHandleFetches == 2    \* successful provider fetches over all handles

\* ArcGISSharingClientBuilder::build: a fresh cache and a fresh mutex
HBuild(h) ==
    /\ h_pc[h] = "absent"
    /\ h_pc' = [h_pc EXCEPT ![h] = "idle"]
    /\ h_token' = [h_token EXCEPT ![h] = NoToken]
    /\ h_refresh_mutex' = [h_refresh_mutex EXCEPT ![h] = h]
    /\ h_inherited' = [h_inherited EXCEPT ![h] = NoToken]
    /\ UNCHANGED <<mutexes, h_fetched, authVars, pureVars, streamVars, lockVars>>

\* ArcGISSharingClient::clone (derived): CachedToken::clone copies the value
\* into a new RwLock, Arc::clone points at the same mutex
HClone(h, g) ==
    /\ h_pc[h] = "absent"
    /\ h_pc[g] # "absent"
    /\ h_pc' = [h_pc EXCEPT ![h] = "idle"]
    /\ h_token' = [h_token EXCEPT ![h] = h_token[g]]
    /\ h_refresh_mutex' = [h_refresh_mutex EXCEPT ![h] = h_refresh_mutex[g]]
    /\ h_inherited' = [h_inherited EXCEPT ![h] = h_token[g]]
    /\ UNCHANGED <<mutexes, h_fetched, authVars, pureVars, streamVars, lockVars>>

InitHandles ==
    /\ auth_state = [kind |-> "LegacyToken", expiration |-> 40]
    /\ AuthIdle
    /\ PureIdle
    /\ StreamIdle
    /\ LockIdle
    /\ h_pc = [h \in Handles |-> IF h = 1 THEN "idle" ELSE "absent"]
    /\ h_token = [h \in Handles |-> NoToken]
    /\ h_refresh_mutex = [h \in Handles |-> IF h = 1 THEN 1 ELSE 0]
    /\ mutexes = [x \in Handles |-> 0]
    /\ h_fetched = << >>
    /\ h_inherited = [h \in Handles |-> NoToken]

\* execute on handle h: the fast path
HFastPath(h) ==
    /\ h_pc[h] = "idle"
    /\ h_pc' = [h_pc EXCEPT ![h] =
                   IF valid_token(h_token[h], now) # NoSecret THEN "sent" ELSE "lock"]
    /\ UNCHANGED <<h_token, h_refresh_mutex, mutexes, h_fetched, h_inherited,
                   authVars, pureVars, streamVars, lockVars>>

\* refresh_mutex.lock().await completes on handle h
HAcquire(h) ==
    /\ h_pc[h] = "lock"
    /\ mutexes[h_refresh_mutex[h]] = 0
    /\ mutexes' = [mutexes EXCEPT ![h_refresh_mutex[h]] = h]
    /\ h_pc' = [h_pc EXCEPT ![h] = "recheck"]
    /\ UNCHANGED <<h_token, h_refresh_mutex, h_fetched, h_inherited,
                   authVars, pureVars, streamVars, lockVars>>

\* the double-check under the mutex
HRecheck(h) ==
    /\ h_pc[h] = "recheck"
    /\ h_pc' = [h_pc EXCEPT ![h] =
                   IF valid_token(h_token[h], now) # NoSecret THEN "release" ELSE "fetching"]
    /\ UNCHANGED <<h_token, h_refresh_mutex, mutexes, h_fetched, h_inherited,
                   authVars, pureVars, streamVars, lockVars>>

\* fetch_token returns Ok; refresh_token_legacy_token stores the token in the
\* handle's own cache
HFetchOk(h) ==
    /\ h_pc[h] = "fetching"
    /\ Len(h_fetched) < MaxHandleFetches
    /\ h_fetched' = Append(h_fetched, h)
    /\ h_token' = [h_token EXCEPT ![h] =
                      CacheSet(Len(h_fetched) + 1, RefreshExpiration(now, 0))]
    /\ h_pc' = [h_pc EXCEPT ![h] = "release"]
    /\ UNCHANGED <<h_refresh_mutex, mutexes, h_inherited,
                   authVars, pureVars, streamVars, lockVars>>

\* fetch_token returns Err
HFetchFail(h) ==
    /\ h_pc[h] = "fetching"
    /\ h_pc' = [h_pc EXCEPT ![h] = "failed"]
    /\ UNCHANGED <<h_token, h_refresh_mutex, mutexes, h_fetched, h_inherited,
                   authVars, pureVars, streamVars, lockVars>>

\* _guard is dropped; the request is dispatched, or execute has returned Err
HRelease(h) ==
    /\ h_pc[h] \in {"release", "failed"}
    /\ mutexes' = [mutexes EXCEPT ![h_refresh_mutex[h]] = 0]
    /\ h_pc' = [h_pc EXCEPT ![h] = IF h_pc[h] = "failed" THEN "idle" ELSE "sent"]
    /\ UNCHANGED <<h_token, h_refresh_mutex, h_fetched, h_inherited,
                   authVars, pureVars, streamVars, lockVars>>

\* the response arrives; a 401 clears the handle's own cache
HRespond(h, status) ==
    /\ h_pc[h] = "sent"
    /\ h_token' = [h_token EXCEPT ![h] = AfterResponse(h_token[h], status)]
    /\ h_pc' = [h_pc EXCEPT ![h] = "idle"]
    /\ UNCHANGED <<h_refresh_mutex, mutexes, h_fetched, h_inherited,
                   authVars, pureVars, streamVars, lockVars>>

NextHandles ==
    \/ \E h \in Handles : HBuild(h)
    \/ \E h, g \in Handles : HClone(h, g)
    \/ \E h \in Handles : HFastPath(h)
    \/ \E h \in Handles : HAcquire(h)
    \/ \E h \in Handles : HRecheck(h)
    \/ \E h \in Handles : HFetchOk(h)
    \/ \E h \in Handles : HFetchFail(h)
    \/ \E h \in Handles : HRelease(h)
    \/ \E h \in Handles, status \in {"ok", "unauthorized"} : HRespond(h, status)

SpecHandles == InitHandles /\ [][NextHandles]_vars

\* C22: a handle waiting for its refresh gate is never kept waiting by the
\* caller of another handle, and a handle's cache holds nothing but the token
\* it was made with or a token its own refresh fetched, for handles built
\* apart and for clones alike.
C22_HandlesIndependent ==
    \A h \in Handles :
        /\ h_pc[h] = "lock" => mutexes[h_refresh_mutex[h]] \in {0, h}
        /\ h_token[h] # NoToken =>
              \/ h_token[h] = h_inherited[h]
              \/ h_fetched[h_token[h].secret] = h

----------------------------------------------------------------------------
(* Threads sharing one CachedToken through its std::sync::RwLock            *)
(* (src/src/auth.rs): SpecRwLock.  The value behind the lock is read and    *)
(* stored one field at a time, in the order of the code and of the struct.  *)

\* the values set() stores; clear() stores NoToken
TokenValues == {CacheSet(1, 10), CacheSet(2, 20)}

\* self.0.read(): granted while no thread holds the lock for writing
CanRead == rw.writers = {}

\* a variant of CanWrite that lets a writer in among readers
CanWriteAmongReaders == rw.writers = {}

\* self.0.write(): granted while no thread holds the lock at all
CanWrite == rw.readers = {} /\ rw.writers = {}

InitRwLock ==
    /\ auth_state = [kind |-> "LegacyToken", expiration |-> 40]
    /\ AuthIdle
    /\ PureIdle
    /\ StreamIdle
    /\ HandlesIdle
    /\ LockIdle

\* valid_token_with_buffer takes the read lock
BeginRead(t) ==
    /\ t_pc[t] \in {"idle", "read"}
    /\ CanRead
    /\ rw' = [rw EXCEPT !.readers = @ \cup {t}]
    /\ t_val' = [t_val EXCEPT ![t] = NoToken]
    /\ t_pc' = [t_pc EXCEPT ![t] = "r_expiration"]
    /\ UNCHANGED <<cell, stored, authVars, pureVars, streamVars, handleVars>>

\* valid_token_with_buffer reads token.expiration
ReadExpiration(t) ==
    /\ t_pc[t] = "r_expiration"
    /\ t_val' = [t_val EXCEPT ![t].expiration = cell.expiration]
    /\ t_pc' = [t_pc EXCEPT ![t] = "r_secret"]
    /\ UNCHANGED <<rw, cell, stored, authVars, pureVars, streamVars, handleVars>>

\* valid_token_with_buffer clones token.secret and returns, dropping the guard
ReadSecret(t) ==
    /\ t_pc[t] = "r_secret"
    /\ t_val' = [t_val EXCEPT ![t].secret = cell.secret]
    /\ rw' = [rw EXCEPT !.readers = @ \ {t}]
    /\ t_pc' = [t_pc EXCEPT ![t] = "read"]
    /\ UNCHANGED <<cell, stored, authVars, pureVars, streamVars, handleVars>>

\* set(v), or clear() with v = NoToken, takes the write lock
BeginWrite(t, v) ==
    /\ t_pc[t] \in {"idle", "read"}
    /\ CanWrite
    /\ rw' = [rw EXCEPT !.writers = @ \cup {t}]
    /\ t_val' = [t_val EXCEPT ![t] = v]
    /\ t_pc' = [t_pc EXCEPT ![t] = "w_expiration"]
    /\ UNCHANGED <<cell, stored, authVars, pureVars, streamVars, handleVars>>

\* the store through the write guard, first field
WriteExpiration(t) ==
    /\ t_pc[t] = "w_expiration"
    /\ cell' = [cell EXCEPT !.expiration = t_val[t].expiration]
    /\ t_pc' = [t_pc EXCEPT ![t] = "w_secret"]
    /\ UNCHANGED <<rw, t_val, stored, authVars, pureVars, streamVars, handleVars>>

\* the store through the write guard, second field; the guard is dropped
WriteSecret(t) ==
    /\ t_pc[t] = "w_secret"
    /\ cell' = [cell EXCEPT !.secret = t_val[t].secret]
    /\ stored' = stored \cup {t_val[t]}
    /\ rw' = [rw EXCEPT !.writers = @ \ {t}]
    /\ t_pc' = [t_pc EXCEPT ![t] = "idle"]
    /\ UNCHANGED <<t_val, authVars, pureVars, streamVars, handleVars>>

NextRwLock ==
    \/ \E t \in Threads : BeginRead(t)
    \/ \E t \in Threads : ReadExpiration(t)
    \/ \E t \in Threads : ReadSecret(t)
    \/ \E t \in Threads, v \in TokenValues \cup {NoToken} : BeginWrite(t, v)
    \/ \E t \in Threads : WriteExpiration(t)
    \/ \E t \in Threads : WriteSecret(t)

SpecRwLock == InitRwLock /\ [][NextRwLock]_vars

\* C23: a completed read returns a pair that some set() or clear() stored
\* whole (or the initial empty value); while a thread reads, the value behind
\* the lock is whole and the field already read still belongs to it; a
\* thread that writes holds the lock alone; and a thread about to read is
\* let in whenever no thread is writing, readers or not.
C23_CacheAtomic ==
    /\ \A t \in Threads :
          /\ t_pc[t] = "read" => t_val[t] \in stored
          /\ t_pc[t] = "r_secret" => t_val[t].expiration = cell.expiration
          /\ (t_pc[t] \in {"idle", "read"} /\ rw.writers = {}) => ENABLED BeginRead(t)
    /\ rw.readers # {} => cell \in stored
    /\ Cardinality(rw.writers) <= 1
    /\ rw.writers # {} => rw.readers = {}

C23_Witness ==
    /\ \A t \in Threads : t_pc[t] = "r_secret"
    /\ rw.readers = Threads
    /\ cell = CacheSet(2, 20)
    /\ CacheSet(1, 10) \in stored

----------------------------------------------------------------------------
(* execute with the cache's RwLock made visible: SpecLive.  Each cache      *)
(* operation of execute is two steps, the lock being granted and the access *)
(* that ends with the guard dropped; the steps that do not touch the cache  *)
(* are those of Spec.  Requests go to the portal; the clock stands still.   *)

\* the callers holding the cache's lock
Holders == rw.readers \cup rw.writers

\* a caller waits in token.set or token.clear for self.0.write()
WriterWaiting == \E j \in Callers : pc[j] \in {"store", "clear"}

\* self.0.read() with the waiters in view: std's RwLock admits no new reader
\* while a writer holds the lock or waits for it
CanReadLive == CanRead /\ ~ WriterWaiting

\* execute is entered; valid_token's self.0.read() is granted
LiveReadLock(i) ==
    /\ pc[i] = "idle"
    /\ CanReadLive
    /\ rw' = [rw EXCEPT !.readers = @ \cup {i}]
    /\ pc' = [pc EXCEPT ![i] = "fast"]
    /\ UNCHANGED <<auth_state, cache, gate, now, req, tok, out, issued, n401, waited,
                   invalidated, cell, t_pc, t_val, stored, pureVars, streamVars,
                   handleVars>>

\* a variant of LiveFastPath whose read guard outlives a miss
LiveFastPathKeepsGuard(i) ==
    /\ pc[i] = "fast"
    /\ LET t == valid_token(cache, now)
       IN  /\ tok' = [tok EXCEPT ![i] = t]
           /\ pc' = [pc EXCEPT ![i] = IF t # NoSecret THEN "attach" ELSE "lock"]
           /\ rw' = IF t # NoSecret THEN [rw EXCEPT !.readers = @ \ {i}] ELSE rw
    /\ UNCHANGED <<auth_state, cache, gate, now, req, out, issued, n401, waited,
                   invalidated, cell, t_pc, t_val, stored, pureVars, streamVars,
                   handleVars>>

\* the fast path's valid_token returns, its guard dropped
LiveFastPath(i) ==
    /\ pc[i] = "fast"
    /\ LET t == valid_token(cache, now)
       IN  /\ tok' = [tok EXCEPT ![i] = t]
           /\ pc' = [pc EXCEPT ![i] = IF t # NoSecret THEN "attach" ELSE "lock"]
    /\ rw' = [rw EXCEPT !.readers = @ \ {i}]
    /\ UNCHANGED <<auth_state, cache, gate, now, req, out, issued, n401, waited,
                   invalidated, cell, t_pc, t_val, stored, pureVars, streamVars,
                   handleVars>>

\* under the mutex, the re-check's self.0.read() is granted
LiveRecheckLock(i) ==
    /\ pc[i] = "recheck"
    /\ CanReadLive
    /\ rw' = [rw EXCEPT !.readers = @ \cup {i}]
    /\ pc' = [pc EXCEPT ![i] = "rechecking"]
    /\ UNCHANGED <<auth_state, cache, gate, now, req, tok, out, issued, n401, waited,
                   invalidated, cell, t_pc, t_val, stored, pureVars, streamVars,
                   handleVars>>

\* the re-check's valid_token returns, its guard dropped
LiveRecheck(i) ==
    /\ pc[i] = "rechecking"
    /\ LET t == valid_token(cache, now)
       IN  /\ tok' = [tok EXCEPT ![i] = t]
           /\ pc' = [pc EXCEPT ![i] = IF t # NoSecret THEN "release" ELSE "fetching"]
    /\ rw' = [rw EXCEPT !.readers = @ \ {i}]
    /\ UNCHANGED <<auth_state, cache, gate, now, req, out, issued, n401, waited,
                   invalidated, cell, t_pc, t_val, stored, pureVars, streamVars,
                   handleVars>>

\* fetch_token returns Ok((token, ttl))
LiveFetchOk(i) ==
    /\ pc[i] = "fetching"
    /\ Len(issued) < MaxFetches
    /\ issued' = Append(issued, now + auth_state.expiration)
    /\ tok' = [tok EXCEPT ![i] = Len(issued) + 1]
    /\ pc' = [pc EXCEPT ![i] = "store"]
    /\ UNCHANGED <<auth_state, cache, gate, now, req, out, n401, waited, invalidated,
                   lockVars, pureVars, streamVars, handleVars>>

\* token.set's self.0.write() is granted
LiveSetLock(i) ==
    /\ pc[i] = "store"
    /\ CanWrite
    /\ rw' = [rw EXCEPT !.writers = @ \cup {i}]
    /\ pc' = [pc EXCEPT ![i] = "storing"]
    /\ UNCHANGED <<auth_state, cache, gate, now, req, tok, out, issued, n401, waited,
                   invalidated, cell, t_pc, t_val, stored, pureVars, streamVars,
                   handleVars>>

\* token.set stores the token and drops its guard
LiveSet(i) ==
    /\ pc[i] = "storing"
    /\ cache' = CacheSet(tok[i], RefreshExpiration(now, 0))
    /\ rw' = [rw EXCEPT !.writers = @ \ {i}]
    /\ pc' = [pc EXCEPT ![i] = "release"]
    /\ UNCHANGED <<auth_state, gate, now, req, tok, out, issued, n401, waited,
                   invalidated, cell, t_pc, t_val, stored, pureVars, streamVars,
                   handleVars>>

\* client.execute(request).await returns; a 401 goes on to token.clear(), any
\* other outcome ends the call
LiveRespond(i, status) ==
    /\ pc[i] = "sent"
    /\ n401' = IF status = "unauthorized" THEN n401 + 1 ELSE n401
    /\ IF status = "unauthorized" /\ auth_state.kind = "LegacyToken"
       THEN /\ pc' = [pc EXCEPT ![i] = "clear"]
            /\ UNCHANGED <<tok, out>>
       ELSE /\ pc' = [pc EXCEPT ![i] = "idle"]
            /\ tok' = [tok EXCEPT ![i] = NoSecret]
            /\ out' = [out EXCEPT ![i] = NotSent]
    /\ UNCHANGED <<auth_state, cache, gate, now, req, issued, waited, invalidated,
                   lockVars, pureVars, streamVars, handleVars>>

\* token.clear's self.0.write() is granted
LiveClearLock(i) ==
    /\ pc[i] = "clear"
    /\ CanWrite
    /\ rw' = [rw EXCEPT !.writers = @ \cup {i}]
    /\ pc' = [pc EXCEPT ![i] = "clearing"]
    /\ UNCHANGED <<auth_state, cache, gate, now, req, tok, out, issued, n401, waited,
                   invalidated, cell, t_pc, t_val, stored, pureVars, streamVars,
                   handleVars>>

\* token.clear stores None and drops its guard; execute returns the response
LiveClear(i) ==
    /\ pc[i] = "clearing"
    /\ cache' = CacheClear
    /\ rw' = [rw EXCEPT !.writers = @ \ {i}]
    /\ pc' = [pc EXCEPT ![i] = "idle"]
    /\ tok' = [tok EXCEPT ![i] = NoSecret]
    /\ out' = [out EXCEPT ![i] = NotSent]
    /\ UNCHANGED <<auth_state, gate, now, req, issued, n401, waited, invalidated,
                   cell, t_pc, t_val, stored, pureVars, streamVars, handleVars>>

\* the steps caller i takes on its own once it has entered execute
LiveRun(i) ==
    \/ LiveFastPath(i)
    \/ LiveRecheck(i)
    \/ LiveFetchOk(i)
    \/ FetchFail(i)
    \/ LiveSet(i)
    \/ Release(i)
    \/ Dispatch(i)
    \/ \E status \in {"ok", "unauthorized", "transport_error"} :
           /\ status = "unauthorized" => n401 < Max401
           /\ LiveRespond(i, status)
    \/ LiveClear(i)

\* the steps in which caller i is granted the refresh mutex or the cache's lock
LiveGranted(i) ==
    \/ Acquire(i)
    \/ LiveRecheckLock(i)
    \/ LiveSetLock(i)
    \/ LiveClearLock(i)

NextLive ==
    \/ \E i \in Callers : LiveReadLock(i)
    \/ \E i \in Callers : LiveRun(i)
    \/ \E i \in Callers : LiveGranted(i)

\* Every step a caller can take on its own is taken in the end: the provider
\* fetch and the dispatched request return (the runtime keeps polling a task
\* that can go on).  The refresh mutex is a tokio Mutex, which serves its
\* waiters in the order they arrived, and the cache lock is held for the
\* length of one access only and puts waiting writers before new readers: a
\* caller that waits for either is served, which strong fairness states.
\* A caller's position changes by its own steps only, so fairness of the
\* disjunction is fairness of each step.
FairLive ==
    \A i \in Callers :
        /\ WF_vars(LiveRun(i))
        /\ SF_vars(LiveGranted(i))

SpecLive == InitLate /\ [][NextLive]_vars /\ FairLive

\* a caller waits for the refresh mutex, for the provider or for the server
Awaiting(i) == pc[i] \in {"lock", "fetching", "sent"}

\* C34: every execute() call that has been entered returns in the end, and
\* no caller holds the cache's lock while it waits for the refresh mutex, for
\* the provider or for the server's response.
C34_NoDeadlock ==
    /\ [](\A i \in Callers : Awaiting(i) => i \notin Holders)
    /\ \A i \in Callers : (pc[i] # "idle") ~> (pc[i] = "idle")

C34_Witness ==
    \E i, j \in Callers :
        /\ i # j
        /\ pc[i] = "lock"
        /\ gate = j
        /\ pc[j] = "storing"
        /\ rw.writers = {j}
        /\ n401 = 1

----------------------------------------------------------------------------
(* The stream with a consumer that keeps polling, a server that answers     *)
(* every page request and a timer that runs out: SpecStreamLive             *)

\* the consumer polls again, every request in flight gets its response or its
\* error, and an armed timer fires
FairStream ==
    /\ WF_vars(Poll)
    /\ WF_vars(ServerError \/ \E n \in 0..MaxItems, next \in NextStarts : ServerReply(n, next))
    /\ WF_vars(TimerFire)

\* send() with the builder's default start and num and a finite max_pages
InitStreamLive ==
    /\ auth_state = [kind |-> "None", expiration |-> 0]
    /\ AuthIdle
    /\ PureIdle
    /\ HandlesIdle
    /\ LockIdle
    /\ endpoint \in Endpoints
    /\ params = to_params(NoStart, NoNum)
    /\ \E mp \in 0..MaxPageCap, d \in PageDelays : stream = NewStream(mp, d)
    /\ reply = NoReply
    /\ elapsed = FALSE
    /\ requests = << >>
    /\ sent = << >>
    /\ replies = << >>
    /\ served = 0
    /\ yielded = << >>
    /\ last_poll = "none"

SpecStreamLive == InitStreamLive /\ [][NextStream]_vars /\ FairStream

\* C35: a stream built with a finite max_pages reports completion in the
\* end, with its buffer drained and with at most max_pages page requests
\* made, whatever the server answered.
C35_StreamTerminates ==
    (stream.max_pages # UsizeMax) ~>
        (/\ last_poll = "done"
         /\ stream.buffer = << >>
         /\ Len(requests) <= stream.max_pages)

C35_Witness ==
    /\ stream.max_pages = 2
    /\ stream.page_fetch_delay # 0
    /\ last_poll = "done"
    /\ Len(requests) = 2
    /\ Len(yielded) = 2 * MaxItems
    /\ replies[2].ok /\ replies[2].next_start > requests[2]

============================================================================
